---------------------------- MODULE Spec2Model ----------------------------
(***************************************************************************)
(* Model of jtimer/models/database.py: the map_times table and the three   *)
(* routines that maintain it, MapTimes.add (the submission of a run),      *)
(* MapTimes.update_ranks (the recompute of one map's two leaderboards) and *)
(* Player.calculate_ranks (the recompute of every player's totals).        *)
(*                                                                         *)
(* The tables hold COMMITTED rows.  A request is run by a worker and moves *)
(* from one db.session.commit() to the next, so every state of the model   *)
(* is a state of the database that another reader, or a restart after an   *)
(* interruption, can observe.  Times are whole numbers of time units.      *)
(***************************************************************************)
EXTENDS Integers, Sequences, FiniteSets, TLC

(* ------------------------------ bounds --------------------------------- *)

NumMaps == 2
NumPlayers == 2
MaxTime == 2
MaxSeed == 2

Maps == 1..NumMaps
Players == 1..NumPlayers
StartTimes == {0}
EndTimes == 1..MaxTime

(* The request slots.  Spec, SpecSeeded and SpecAnyTimes serve one request *)
(* at a time; SpecConcurrent serves one request on each slot.              *)
Workers == {"w1", "w2"}
Serial == {"w1"}

(* ------------------------- program constants --------------------------- *)

SOLDIER == 2
DEMOMAN == 4
Classes == {SOLDIER, DEMOMAN}

NONE == 0
ADDED == 1
UPDATED == 2

(* SQL NULL and Python None.  NULL > 0 is not true, as in SQL.             *)
NULL == 0 - 1

(* jtimer.points.calc_points: an integer score, non-increasing in the time *)
(* and depending on the best time and on the number of completions.        *)
calc_points(best, time, completions) ==
    IF 2 * (time - best) >= completions THEN 0
    ELSE completions - 2 * (time - best)

(* The map_checkpoint table: every map defines the checkpoint of index 1.  *)
map_checkpoint == {[id_ |-> m, map_id |-> m, cp_index |-> 1] : m \in Maps}

(* The checkpoints argument of MapTimes.add: a list of cp_index/time.      *)
CheckpointInputs ==
    { <<>>, <<[cp_index |-> 1, time |-> 1], [cp_index |-> 2, time |-> 2]>> }

(* ------------------------------- state --------------------------------- *)

VARIABLES
    map_times,             \* table map_times: the committed Runs
    map_checkpoint_times,  \* table map_checkpoint_times: the committed Splits
    player,                \* table player: points and rank per class
    next_id,               \* next primary key of map_times
    pc,                    \* per worker: the next commit of its request
    self,                  \* per worker: the MapTimes object being added
    checkpoints,           \* per worker: the checkpoints argument
    query,                 \* per worker: the row the lookup found, or NoRun
    records,               \* per worker: get_records() before the mutation
    map_id,                \* per worker: the map_id argument of update_ranks
    completions,           \* per worker: the completions update_ranks counted
    result,                \* per worker: the dictionary the call returned
    dirty,                 \* per worker: rank and points set, not committed
    before,                \* history: the tables when the call in progress began
    ranked                 \* history: the map the call before this one ranked

tables == <<map_times, map_checkpoint_times, player, next_id>>
locals == <<pc, self, checkpoints, query, records, map_id, completions, result,
           dirty>>
history == <<before, ranked>>
vars == <<tables, locals, history>>

NoRun == [id_ |-> NULL]
NoneJson == [id |-> NULL]
Absent == [absent |-> TRUE]
NoRecords == [soldier |-> NoneJson, demoman |-> NoneJson]
NoCompletions == [soldier |-> 0, demoman |-> 0]
NoResult == [result |-> NULL]
NoDirty == [rank |-> {}, points |-> {}]
Failed == [result |-> NULL, failed |-> TRUE]

Triples == Maps \X Players \X Classes

(* ------------------------------ helpers -------------------------------- *)

RECURSIVE SumPoints(_)
SumPoints(rows) ==
    IF rows = {} THEN 0
    ELSE LET r == CHOOSE x \in rows : TRUE
         IN  r.points + SumPoints(rows \ {r})

Min(S) == CHOOSE x \in S : \A y \in S : x <= y

(* All the orders in which a query may return the rows of S when it        *)
(* orders them by key (a function on S), ascending: rows with equal keys   *)
(* come in any order.                                                      *)
OrderBy(S, key) ==
    { f \in [1..Cardinality(S) -> S] :
        /\ \A i, j \in 1..Cardinality(S) : i # j => f[i] # f[j]
        /\ \A i, j \in 1..Cardinality(S) : i < j => key[f[i]] <= key[f[j]] }

(* A changed order_by: the rows come in insertion order.                   *)
InsertionOrder(r) == r.id_

(* order_by(MapTimes.duration), lines 470 and 485: the key of the order.   *)
Duration(r) == r.duration

(* The rows of one leaderboard: filter(map_id == m, player_class == c).    *)
Leaderboard(rows, m, c) ==
    {r \in rows : r.map_id = m /\ r.player_class = c}

(* Lines 468-472 and 483-487: the lists update_ranks may read.             *)
Times(rows, m, c) ==
    OrderBy(Leaderboard(rows, m, c),
            [r \in Leaderboard(rows, m, c) |-> Duration(r)])

(* ------------------------------ the views ------------------------------ *)

(* Player.json, lines 24-38: the identity and the rank_info.               *)
PlayerJson(pl, p) ==
    [id |-> p,
     rank_info |-> [soldier_points |-> pl[p].s_points,
                    demo_points |-> pl[p].d_points,
                    soldier_rank |-> pl[p].s_rank,
                    demoman_rank |-> pl[p].d_rank]]

(* MapTimes.get_checkpoint_times, lines 305-318: the Splits of the Run     *)
(* whose checkpoint exists, with the time made relative to the start.      *)
get_checkpoint_times(cpt, r) ==
    { [id |-> t.checkpoint_id,
       time |-> t.time - r.start_time,
       cp_index |-> (CHOOSE mc \in map_checkpoint : mc.id_ = t.checkpoint_id).cp_index]
      : t \in {x \in cpt : /\ x.time_id = r.id_
                           /\ \E mc \in map_checkpoint : mc.id_ = x.checkpoint_id} }

(* MapTimes.json, lines 286-303.                                           *)
json(cpt, pl, r) ==
    [id |-> r.id_,
     map_id |-> r.map_id,
     player |-> PlayerJson(pl, r.player_id),
     class |-> r.player_class,
     time |-> r.end_time - r.start_time,
     rank |-> r.rank,
     checkpoints |-> get_checkpoint_times(cpt, r)]

(* One class of get_records: order_by(duration).first(), None when there   *)
(* is no row.  Among rows of equal duration the first one is any of them.  *)
RecordOf(rows, cpt, pl, m, c) ==
    LET lb == Leaderboard(rows, m, c)
    IN  IF lb = {} THEN {NoneJson}
        ELSE { json(cpt, pl, r) :
                 r \in {x \in lb : \A y \in lb : x.duration <= y.duration} }

(* MapTimes.get_records, lines 442-461: the possible snapshots.            *)
get_records(rows, cpt, pl, m) ==
    { [soldier |-> s, demoman |-> d] :
        s \in RecordOf(rows, cpt, pl, m, SOLDIER),
        d \in RecordOf(rows, cpt, pl, m, DEMOMAN) }

(* ----------------------------- MapTimes.add ---------------------------- *)

(* The filter of the lookup, lines 324-328.  The three comparisons are     *)
(* joined by Python's `and`, which evaluates the truth of its left operand *)
(* and returns it when it is false.  The truth of the SQL expression       *)
(* MapTimes.map_id == self.map_id is the equality of a column and a bound  *)
(* parameter, which is false: the expression handed to filter() is the     *)
(* first comparison alone.                                                 *)
add_filter(r, new) == r.map_id = new.map_id

(* query = MapTimes.query.filter(...).first(): with no ORDER BY the first  *)
(* row is any row that passes the filter; None when there is none.         *)
Lookup(rows, new) ==
    IF {r \in rows : add_filter(r, new)} = {} THEN {NoRun}
    ELSE {r \in rows : add_filter(r, new)}

(* The MapTimes object the caller builds: no id, rank or points yet.       *)
NewRun(m, p, c, st, et) ==
    [id_ |-> NULL, map_id |-> m, player_id |-> p, player_class |-> c,
     start_time |-> st, end_time |-> et, duration |-> et - st,
     rank |-> NULL, points |-> NULL]

(* The Splits of lines 336-347 and 374-385: one per submitted checkpoint   *)
(* whose cp_index is defined for the map (the Split's own id is left out). *)
RECURSIVE NewCheckpointTimes(_, _, _)
NewCheckpointTimes(cps, m, time_id) ==
    IF cps = <<>> THEN {}
    ELSE LET defs == {mc \in map_checkpoint :
                        mc.map_id = m /\ mc.cp_index = Head(cps).cp_index}
         IN  IF defs = {} THEN NewCheckpointTimes(Tail(cps), m, time_id)
             ELSE {[checkpoint_id |-> (CHOOSE mc \in defs : TRUE).id_,
                    time_id |-> time_id,
                    time |-> Head(cps).time]}
                  \cup NewCheckpointTimes(Tail(cps), m, time_id)

(* Lines 320-332 and 363-368, and for a time that is not faster the return *)
(* of lines 434-440: the lookup, the snapshot of the records, the branch.  *)
add(w, new, cps) ==
    /\ pc[w] = "idle"
    /\ \E q \in Lookup(map_times, new),
          recs \in get_records(map_times, map_checkpoint_times, player,
                               new.map_id) :
       /\ self' = [self EXCEPT ![w] = new]
       /\ checkpoints' = [checkpoints EXCEPT ![w] = cps]
       /\ query' = [query EXCEPT ![w] = q]
       /\ records' = [records EXCEPT ![w] = recs]
       /\ map_id' = [map_id EXCEPT ![w] = new.map_id]
       /\ completions' = [completions EXCEPT ![w] = NoCompletions]
       /\ before' = [map_times |-> map_times,
                     map_checkpoint_times |-> map_checkpoint_times,
                     player |-> player]
       /\ IF q = NoRun
          THEN /\ pc' = [pc EXCEPT ![w] = "add"]
               /\ result' = [result EXCEPT ![w] = NoResult]
          ELSE IF new.end_time - new.start_time < q.end_time - q.start_time
          THEN /\ pc' = [pc EXCEPT ![w] = "replace"]
               /\ result' = [result EXCEPT ![w] = NoResult]
          ELSE /\ pc' = [pc EXCEPT ![w] = "return"]
               /\ result' = [result EXCEPT ![w] =
                     [result |-> NONE,
                      rank |-> NULL,
                      points_gained |-> NULL,
                      completions |-> Absent,
                      improvement |-> NULL,
                      duration |-> new.duration,
                      records |-> recs,
                      old_records |-> Absent,
                      old_time |-> q.end_time - q.start_time]]
    /\ UNCHANGED <<tables, dirty, ranked>>

(* A request whose times are a start and a later end.                      *)
Submit(w, ms) ==
    \E m \in ms, p \in Players, c \in Classes,
       st \in StartTimes, et \in EndTimes, cps \in CheckpointInputs :
        add(w, NewRun(m, p, c, st, et), cps)

AnyTimes == 0..MaxTime

(* A request whose times are any two times: the end may come before the    *)
(* start.  add() is entered with the object as the caller built it.        *)
SubmitAnyTimes(w, ms) ==
    \E m \in ms, p \in Players, c \in Classes,
       st \in AnyTimes, et \in AnyTimes, cps \in CheckpointInputs :
        add(w, NewRun(m, p, c, st, et), cps)

(* The rows one commit inserts: the Run with its new id and its Splits.    *)
Inserted(w) ==
    NewCheckpointTimes(checkpoints[w], self[w].map_id, next_id)

(* CommitAdd without the call of line 352: the players are summed next.    *)
CommitAddUnranked(w) ==
    /\ pc[w] = "add"
    /\ map_times' = map_times \cup {[self[w] EXCEPT !.id_ = next_id]}
    /\ map_checkpoint_times' = map_checkpoint_times \cup Inserted(w)
    /\ next_id' = next_id + 1
    /\ self' = [self EXCEPT ![w].id_ = next_id]
    /\ pc' = [pc EXCEPT ![w] = "calculate_ranks"]
    /\ UNCHANGED <<player, checkpoints, query, records, map_id, completions,
                   result, history, dirty>>

(* Lines 334-349: no Run was found; the Run and its Splits are committed.  *)
CommitAdd(w) ==
    /\ pc[w] = "add"
    /\ map_times' = map_times \cup {[self[w] EXCEPT !.id_ = next_id]}
    /\ map_checkpoint_times' = map_checkpoint_times \cup Inserted(w)
    /\ next_id' = next_id + 1
    /\ self' = [self EXCEPT ![w].id_ = next_id]
    /\ pc' = [pc EXCEPT ![w] = "update_ranks"]
    /\ UNCHANGED <<player, checkpoints, query, records, map_id, completions,
                   result, history, dirty>>

(* A changed replace: the Splits of the Run that was found are kept.       *)
CommitCheckpointsKept(w) ==
    /\ pc[w] = "replace"
    /\ map_times' = map_times \cup {[self[w] EXCEPT !.id_ = next_id]}
    /\ map_checkpoint_times' = map_checkpoint_times \cup Inserted(w)
    /\ next_id' = next_id + 1
    /\ self' = [self EXCEPT ![w].id_ = next_id]
    /\ pc' = [pc EXCEPT ![w] = "delete"]
    /\ UNCHANGED <<player, checkpoints, query, records, map_id, completions,
                   result, history, dirty>>

(* A changed replace: the Splits to delete are looked up by the map of the *)
(* Run that was found, not by its id.                                      *)
CommitCheckpointsOfMap(w) ==
    /\ pc[w] = "replace"
    /\ map_times' = map_times \cup {[self[w] EXCEPT !.id_ = next_id]}
    /\ map_checkpoint_times' =
         {t \in map_checkpoint_times \cup Inserted(w) :
            \A mc \in map_checkpoint :
                mc.id_ = t.checkpoint_id => mc.map_id # query[w].map_id}
    /\ next_id' = next_id + 1
    /\ self' = [self EXCEPT ![w].id_ = next_id]
    /\ pc' = [pc EXCEPT ![w] = "delete"]
    /\ UNCHANGED <<player, checkpoints, query, records, map_id, completions,
                   result, history, dirty>>

(* Lines 372-397: the faster Run and its Splits are added, the Splits of   *)
(* the Run that was found are deleted, and all of it is committed.  The    *)
(* list all() returns is never None, so the commit always happens.         *)
CommitCheckpoints(w) ==
    /\ pc[w] = "replace"
    /\ map_times' = map_times \cup {[self[w] EXCEPT !.id_ = next_id]}
    /\ map_checkpoint_times' =
         {t \in map_checkpoint_times \cup Inserted(w) : t.time_id # query[w].id_}
    /\ next_id' = next_id + 1
    /\ self' = [self EXCEPT ![w].id_ = next_id]
    /\ pc' = [pc EXCEPT ![w] = "delete"]
    /\ UNCHANGED <<player, checkpoints, query, records, map_id, completions,
                   result, history, dirty>>

(* A changed replace: the Run that was found is kept.                      *)
CommitDeleteSkipped(w) ==
    /\ pc[w] = "delete"
    /\ pc' = [pc EXCEPT ![w] = "update_ranks"]
    /\ UNCHANGED <<tables, self, checkpoints, query, records, map_id,
                   completions, result, history, dirty>>

(* Lines 399-401: the Run that was found is deleted and that is committed. *)
CommitDelete(w) ==
    /\ pc[w] = "delete"
    /\ map_times' = {r \in map_times : r.id_ # query[w].id_}
    /\ pc' = [pc EXCEPT ![w] = "update_ranks"]
    /\ UNCHANGED <<map_checkpoint_times, player, next_id, self,
                   checkpoints, query, records, map_id, completions, result,
                   history, dirty>>

(* ------------------------ MapTimes.update_ranks ------------------------ *)

(* A changed loop: the points count the rows ranked so far, not len().     *)
RankRowsCountSoFar(order) ==
    { [order[i] EXCEPT
         !.rank = i,
         !.points = calc_points(order[1].duration, order[i].duration, i)]
      : i \in DOMAIN order }

(* Lines 475-481 and 490-494: the i-th row of the ordered list gets rank   *)
(* i and the points of its time against the first row's time.              *)
RankRows(order) ==
    { [order[i] EXCEPT
         !.rank = i,
         !.points = calc_points(order[1].duration, order[i].duration,
                                Cardinality(DOMAIN order))]
      : i \in DOMAIN order }

(* Lines 468-496: both leaderboards of the map are rewritten; st and dt    *)
(* are the lists the two ordered queries returned.                         *)
update_ranks(rows, st, dt) ==
    (rows \ ({st[i] : i \in DOMAIN st} \cup {dt[i] : i \in DOMAIN dt}))
        \cup RankRows(st) \cup RankRows(dt)

(* Lines 466, 474, 489: len() of each list, 0 for an empty one.            *)
Completions(st, dt) ==
    [soldier |-> Cardinality(DOMAIN st), demoman |-> Cardinality(DOMAIN dt)]

(* Lines 463-496: update_ranks up to its commit.                           *)
UpdateRanks(w) ==
    /\ pc[w] = "update_ranks"
    /\ \E st \in Times(map_times, map_id[w], SOLDIER),
          dt \in Times(map_times, map_id[w], DEMOMAN) :
         /\ map_times' = update_ranks(map_times, st, dt)
         /\ completions' = [completions EXCEPT ![w] = Completions(st, dt)]
    /\ pc' = [pc EXCEPT ![w] = "calculate_ranks"]
    /\ UNCHANGED <<map_checkpoint_times, player, next_id, self,
                   checkpoints, query, records, map_id, result, history, dirty>>

(* The row of the table that holds the object obj (reloaded by its id).    *)
Row(rows, obj) == CHOOSE r \in rows : r.id_ = obj.id_

(* Lines 468-494 when other requests are served at the same time: the two  *)
(* lists are read and rank and points are set on the loaded objects; the   *)
(* session holds the attributes whose value changed, by primary key.       *)
ReadRanks(w) ==
    /\ pc[w] = "update_ranks"
    /\ \E st \in Times(map_times, map_id[w], SOLDIER),
          dt \in Times(map_times, map_id[w], DEMOMAN) :
         LET set == RankRows(st) \cup RankRows(dt) IN
         /\ dirty' = [dirty EXCEPT ![w] =
               [rank |-> {<<x.id_, x.rank>> : x \in
                            {y \in set : y.rank # Row(map_times, y).rank}},
                points |-> {<<x.id_, x.points>> : x \in
                            {y \in set : y.points # Row(map_times, y).points}}]]
         /\ completions' = [completions EXCEPT ![w] = Completions(st, dt)]
    /\ pc' = [pc EXCEPT ![w] = "commit_ranks"]
    /\ UNCHANGED <<tables, self, checkpoints, query, records, map_id, result,
                   history>>

(* The ids of the rows the session of w holds changes for.                 *)
DirtyIds(w) ==
    {u[1] : u \in dirty[w].rank} \cup {u[1] : u \in dirty[w].points}

(* Line 496 when other requests are served at the same time: one UPDATE    *)
(* per changed row sets the changed columns of the row with that primary   *)
(* key, whatever the row holds by now.  A row that has been deleted makes  *)
(* the flush raise (no row matched) and the request ends without a write.  *)
CommitRanks(w) ==
    /\ pc[w] = "commit_ranks"
    /\ IF \A i \in DirtyIds(w) : \E r \in map_times : r.id_ = i
       THEN /\ map_times' =
                 { [r EXCEPT
                      !.rank = IF \E u \in dirty[w].rank : u[1] = r.id_
                               THEN (CHOOSE u \in dirty[w].rank : u[1] = r.id_)[2]
                               ELSE r.rank,
                      !.points = IF \E u \in dirty[w].points : u[1] = r.id_
                                 THEN (CHOOSE u \in dirty[w].points : u[1] = r.id_)[2]
                                 ELSE r.points]
                   : r \in map_times }
            /\ pc' = [pc EXCEPT ![w] = "calculate_ranks"]
            /\ UNCHANGED result
       ELSE /\ pc' = [pc EXCEPT ![w] = "return"]
            /\ result' = [result EXCEPT ![w] = Failed]
            /\ UNCHANGED map_times
    /\ dirty' = [dirty EXCEPT ![w] = NoDirty]
    /\ UNCHANGED <<map_checkpoint_times, player, next_id, self, checkpoints,
                   query, records, map_id, completions, history>>

(* A call of the static method that is not made by add().                  *)
Recompute(w, ms) ==
    /\ pc[w] = "idle"
    /\ \E m \in ms : map_id' = [map_id EXCEPT ![w] = m]
    /\ UNCHANGED <<self, query, checkpoints, records, completions, result>>
    /\ before' = [map_times |-> map_times,
                  map_checkpoint_times |-> map_checkpoint_times,
                  player |-> player]
    /\ pc' = [pc EXCEPT ![w] = "update_ranks"]
    /\ UNCHANGED <<tables, dirty, ranked>>

(* ------------------------ Player.calculate_ranks ----------------------- *)

(* Lines 54-63 and 67-76: one row per player of the class, with the sum of *)
(* the points.  filter() after group_by() still adds to the WHERE clause,  *)
(* where points names the column of map_times: the rows whose points are   *)
(* not above 0 (or are NULL) are left out before the grouping.             *)
ClassPoints(rows, c) ==
    LET counted == {r \in rows : r.player_class = c /\ r.points > 0}
    IN  { [player_id |-> p,
           points |-> SumPoints({r \in counted : r.player_id = p})]
          : p \in {r.player_id : r \in counted} }

(* order_by(desc(points)): the key of the ascending order.                 *)
DescPoints(x) == 0 - x.points

(* Lines 54-63 and 67-76: the lists calculate_ranks may read.              *)
Points(rows, c) ==
    OrderBy(ClassPoints(rows, c), [x \in ClassPoints(rows, c) |-> DescPoints(x)])

(* Lines 85-99: the player found at position i of a list takes its points  *)
(* and the rank i; a player in no list is not touched.                     *)
calculate_ranks(pl, sp, dp) ==
    [p \in DOMAIN pl |->
        [s_points |-> IF \E i \in DOMAIN sp : sp[i].player_id = p
                      THEN (CHOOSE x \in {sp[i] : i \in DOMAIN sp} : x.player_id = p).points
                      ELSE pl[p].s_points,
         s_rank |-> IF \E i \in DOMAIN sp : sp[i].player_id = p
                    THEN CHOOSE i \in DOMAIN sp : sp[i].player_id = p
                    ELSE pl[p].s_rank,
         d_points |-> IF \E i \in DOMAIN dp : dp[i].player_id = p
                      THEN (CHOOSE x \in {dp[i] : i \in DOMAIN dp} : x.player_id = p).points
                      ELSE pl[p].d_points,
         d_rank |-> IF \E i \in DOMAIN dp : dp[i].player_id = p
                    THEN CHOOSE i \in DOMAIN dp : dp[i].player_id = p
                    ELSE pl[p].d_rank]]

(* Returned with line 408 as `new_records = records`: the two keys of the  *)
(* returned dictionary name one dictionary.                                *)
ReturnedAliased(w, rows, cpt, pl) ==
    LET me == Row(rows, self[w])
        new_records == IF me.player_class = SOLDIER
                       THEN [records[w] EXCEPT !.soldier = json(cpt, pl, me)]
                       ELSE IF me.player_class = DEMOMAN
                       THEN [records[w] EXCEPT !.demoman = json(cpt, pl, me)]
                       ELSE records[w]
    IN
    IF query[w] = NoRun
    THEN [result |-> ADDED,
          rank |-> me.rank,
          points_gained |-> me.points,
          completions |-> completions[w],
          improvement |-> NULL,
          duration |-> me.duration,
          records |-> records[w],
          old_records |-> Absent,
          old_time |-> NULL]
    ELSE [result |-> UPDATED,
          rank |-> me.rank,
          points_gained |-> me.points - query[w].points,
          completions |-> completions[w],
          improvement |-> (query[w].end_time - query[w].start_time)
                            - (self[w].end_time - self[w].start_time),
          duration |-> me.duration,
          records |-> IF me.rank = 1 THEN new_records ELSE records[w],
          old_records |-> IF me.rank = 1 THEN new_records ELSE Absent,
          old_time |-> NULL]

(* The dictionary add() returns after update_ranks: lines 354-361 when no  *)
(* Run was found, lines 406-432 when a slower one was.                     *)
Returned(w, rows, cpt, pl) ==
    LET me == Row(rows, self[w]) IN
    IF query[w] = NoRun
    THEN [result |-> ADDED,
          rank |-> me.rank,
          points_gained |-> me.points,
          completions |-> completions[w],
          improvement |-> NULL,
          duration |-> me.duration,
          records |-> records[w],
          old_records |-> Absent,
          old_time |-> NULL]
    ELSE [result |-> UPDATED,
          rank |-> me.rank,
          points_gained |-> me.points - query[w].points,
          completions |-> completions[w],
          improvement |-> (query[w].end_time - query[w].start_time)
                            - (self[w].end_time - self[w].start_time),
          duration |-> me.duration,
          records |-> IF me.rank = 1
                      THEN IF me.player_class = SOLDIER
                           THEN [records[w] EXCEPT !.soldier = json(cpt, pl, me)]
                           ELSE IF me.player_class = DEMOMAN
                           THEN [records[w] EXCEPT !.demoman = json(cpt, pl, me)]
                           ELSE records[w]
                      ELSE records[w],
          old_records |-> IF me.rank = 1 THEN records[w] ELSE Absent,
          old_time |-> NULL]

(* Lines 498-501 with lines 49-101: calculate_ranks and its commit, then   *)
(* the return of update_ranks and of the add() that called it.  Reading    *)
(* self.rank reloads the row; when another request has deleted it the      *)
(* reload raises and add() returns nothing.                                *)
CalculateRanks(w) ==
    /\ pc[w] = "calculate_ranks"
    /\ \E sp \in Points(map_times, SOLDIER),
          dp \in Points(map_times, DEMOMAN) :
         /\ player' = calculate_ranks(player, sp, dp)
         /\ result' = [result EXCEPT ![w] =
               IF self[w] = NoRun
               THEN [result |-> NULL, completions |-> completions[w]]
               ELSE IF \A r \in map_times : r.id_ # self[w].id_
               THEN Failed
               ELSE Returned(w, map_times, map_checkpoint_times, player')]
    /\ pc' = [pc EXCEPT ![w] = "return"]
    /\ UNCHANGED <<map_times, map_checkpoint_times, next_id, self,
                   checkpoints, query, records, map_id, completions, history, dirty>>

NoBefore == [map_times |-> {}, map_checkpoint_times |-> {}]

(* The caller takes the returned value; the request's objects are gone.    *)
(* What stays is which map's update_ranks the call ran, 0 for none.        *)
Return(w) ==
    /\ pc[w] = "return"
    /\ pc' = [pc EXCEPT ![w] = "idle"]
    /\ self' = [self EXCEPT ![w] = NoRun]
    /\ checkpoints' = [checkpoints EXCEPT ![w] = <<>>]
    /\ query' = [query EXCEPT ![w] = NoRun]
    /\ records' = [records EXCEPT ![w] = NoRecords]
    /\ map_id' = [map_id EXCEPT ![w] = 1]
    /\ completions' = [completions EXCEPT ![w] = NoCompletions]
    /\ result' = [result EXCEPT ![w] = NoResult]
    /\ before' = NoBefore
    /\ ranked' = IF result[w].result = NONE THEN 0 ELSE map_id[w]
    /\ UNCHANGED <<tables, dirty>>

(* --------------------------- specifications ---------------------------- *)

NewPlayer == [s_points |-> 0, d_points |-> 0, s_rank |-> 0, d_rank |-> 0]

InitLocals ==
    /\ pc = [w \in Workers |-> "idle"]
    /\ self = [w \in Workers |-> NoRun]
    /\ checkpoints = [w \in Workers |-> <<>>]
    /\ query = [w \in Workers |-> NoRun]
    /\ records = [w \in Workers |-> NoRecords]
    /\ map_id = [w \in Workers |-> 1]
    /\ completions = [w \in Workers |-> NoCompletions]
    /\ result = [w \in Workers |-> NoResult]
    /\ dirty = [w \in Workers |-> NoDirty]
    /\ before = NoBefore
    /\ ranked = 0

(* The database after db.create_all() and the registration of the players  *)
(* (column defaults of lines 19-22): no Run, no Split.                     *)
Init ==
    /\ map_times = {}
    /\ map_checkpoint_times = {}
    /\ player = [p \in Players |-> NewPlayer]
    /\ next_id = 1
    /\ InitLocals

(* The steps of worker w when the requests name the maps of ms.            *)
Step(w, ms) ==
    \/ Submit(w, ms)
    \/ CommitAdd(w)
    \/ CommitCheckpoints(w)
    \/ CommitDelete(w)
    \/ UpdateRanks(w)
    \/ CalculateRanks(w)
    \/ Recompute(w, ms)
    \/ Return(w)

Next == \E w \in Serial : Step(w, Maps)

Spec == Init /\ [][Next]_vars

(* The rows that requests served at the same time leave on one map: each   *)
(* of them finds no Run (lines 324-332) before the other has committed and *)
(* inserts its own, so a map holds several Runs, of one triple or of       *)
(* several.  SpecSeeded starts from such a table, ranked by update_ranks   *)
(* and calculate_ranks as the last of those requests leaves it.            *)
SeedMap == Min(Maps)

SeedRuns ==
    { NewRun(SeedMap, p, c, st, et) :
        p \in Players, c \in Classes, st \in StartTimes, et \in EndTimes }

InitSeeded ==
    /\ \E k \in 0..MaxSeed : \E f \in [1..k -> SeedRuns] :
         LET raw == {[f[i] EXCEPT !.id_ = i] : i \in 1..k} IN
         \E st \in Times(raw, SeedMap, SOLDIER),
            dt \in Times(raw, SeedMap, DEMOMAN) :
            LET rows == update_ranks(raw, st, dt) IN
            \E sp \in Points(rows, SOLDIER),
               dp \in Points(rows, DEMOMAN) :
               /\ map_times = rows
               /\ player = calculate_ranks([p \in Players |-> NewPlayer], sp, dp)
               /\ next_id = k + 1
    /\ map_checkpoint_times = {}
    /\ InitLocals

(* The requests of SpecSeeded are for the seeded map.                      *)
NextSeeded == \E w \in Serial : Step(w, {SeedMap})

SpecSeeded == InitSeeded /\ [][NextSeeded]_vars

(* Requests served at the same time, each by its own worker with its own   *)
(* session, on one database: the steps of the workers interleave at the    *)
(* queries and the commits.  Each worker serves one request and keeps what *)
(* it returned.                                                            *)
StepConcurrent(w, ms) ==
    \/ Submit(w, ms)
    \/ CommitAdd(w)
    \/ CommitCheckpoints(w)
    \/ CommitDelete(w)
    \/ ReadRanks(w)
    \/ CommitRanks(w)
    \/ CalculateRanks(w)

NextConcurrent == \E w \in Workers : StepConcurrent(w, {SeedMap})

SpecConcurrent == Init /\ [][NextConcurrent]_vars

(* The requests of SpecAnyTimes carry any two times; they are for one map. *)
StepAnyTimes(w, ms) ==
    \/ SubmitAnyTimes(w, ms)
    \/ CommitAdd(w)
    \/ CommitCheckpoints(w)
    \/ CommitDelete(w)
    \/ UpdateRanks(w)
    \/ CalculateRanks(w)
    \/ Recompute(w, ms)
    \/ Return(w)

NextAnyTimes == \E w \in Serial : StepAnyTimes(w, {SeedMap})

SpecAnyTimes == Init /\ [][NextAnyTimes]_vars

(* ------------------------------- claims -------------------------------- *)

(* A submission has returned to its caller (the tables of `before` are the *)
(* tables it found); an ADD or a REPLACE has; a direct recompute has.      *)
Submitted(w) == pc[w] = "return" /\ self[w] # NoRun
Mutated(w) == Submitted(w) /\ result[w].result \in {ADDED, UPDATED}
Recomputed(w) == pc[w] = "return" /\ self[w] = NoRun

SameTriple(r, x) ==
    /\ r.map_id = x.map_id
    /\ r.player_id = x.player_id
    /\ r.player_class = x.player_class

RunsOf(rows, m, p, c) ==
    {r \in rows : r.map_id = m /\ r.player_id = p /\ r.player_class = c}

Time(r) == r.end_time - r.start_time

(* C1: the outcome of a submission is decided by the Run of the same (map, *)
(* player, class) that the store held: Added when there was none, Updated  *)
(* when the new time is smaller than its time, Rejected when it is not.    *)
C1_OutcomeByTriple ==
    \A w \in Workers : Submitted(w) =>
        LET old == {r \in before.map_times : SameTriple(r, self[w])} IN
        /\ old = {} => result[w].result = ADDED
        /\ (old # {} /\ \A r \in old : Time(self[w]) < Time(r))
              => result[w].result = UPDATED
        /\ (old # {} /\ \A r \in old : Time(self[w]) >= Time(r))
              => result[w].result = NONE

(* C2: when no submission is in progress, the store holds at most one Run  *)
(* for every (map, player, class).                                         *)
C2_AtMostOneRun ==
    (\A w \in Workers : pc[w] \in {"idle", "return"}) =>
        \A t \in Triples : Cardinality(RunsOf(map_times, t[1], t[2], t[3])) <= 1

(* C2 witness: a REPLACE of the player's own Run has returned and the      *)
(* triple holds one Run, the new one.                                      *)
C2_Witness ==
    \E w \in Workers :
        /\ Submitted(w) /\ result[w].result = UPDATED
        /\ SameTriple(query[w], self[w])
        /\ RunsOf(map_times, self[w].map_id, self[w].player_id,
                  self[w].player_class) = {Row(map_times, self[w])}

(* C3: the stored Run of a triple is the fastest time submitted for it.    *)
(* Stated for one submission: after it, the Runs of the submitted triple   *)
(* are one Run whose time is the smaller of the submitted time and the     *)
(* time stored before, and the Runs of every other triple have the times   *)
(* they had.  From the empty store this is the claim for any sequence.     *)
C3_PersonalBest ==
    \A w \in Workers : Submitted(w) =>
        \A t \in Triples :
            LET was == {Time(r) : r \in RunsOf(before.map_times, t[1], t[2], t[3])}
                now == {Time(r) : r \in RunsOf(map_times, t[1], t[2], t[3])}
            IN  IF t = <<self[w].map_id, self[w].player_id, self[w].player_class>>
                THEN now = {Min(was \cup {Time(self[w])})}
                ELSE now = was

(* C4: a Rejected submission changes no Run, no Split and no Player, does  *)
(* not persist the candidate, and carries as old_time the time of the Run  *)
(* the store holds for the submitted triple.                               *)
C4_RejectedChangesNothing ==
    \A w \in Workers : (Submitted(w) /\ result[w].result = NONE) =>
        /\ map_times = before.map_times
        /\ map_checkpoint_times = before.map_checkpoint_times
        /\ player = before.player
        /\ \E r \in map_times :
              SameTriple(r, self[w]) /\ result[w].old_time = Time(r)

(* The ranks of a leaderboard are 1..N, each once, and never decrease      *)
(* against the duration.                                                   *)
Ranked(lb) ==
    /\ {r.rank : r \in lb} = 1..Cardinality(lb)
    /\ \A r1, r2 \in lb : r1.rank < r2.rank => r1.duration <= r2.duration

(* C5: after every completed ADD, REPLACE or direct recompute, the ranks   *)
(* of every (map, class) leaderboard are 1..N, each used once, and a lower *)
(* rank never has a greater duration.                                      *)
C5_RanksContiguous ==
    \A w \in Workers : (Mutated(w) \/ Recomputed(w)) =>
        \A m \in Maps, c \in Classes : Ranked(Leaderboard(map_times, m, c))

(* C5 witness: a REPLACE has returned on a leaderboard of two Runs and the *)
(* Run that was there before is now behind the new one.                    *)
C5_Witness ==
    \E w \in Workers :
        /\ Mutated(w) /\ result[w].result = UPDATED /\ result[w].rank = 1
        /\ \E r \in Leaderboard(map_times, self[w].map_id, self[w].player_class) :
              /\ r.rank = 2 /\ r.duration > self[w].duration
              /\ \E b \in before.map_times : b.id_ = r.id_ /\ b.rank = 1

(* C6: after every completed ADD or REPLACE every Run has the points of    *)
(* its duration against the duration of the rank-1 Run of its leaderboard  *)
(* and that leaderboard's number of Runs.                                  *)
C6_PointsCurrent ==
    \A w \in Workers : Mutated(w) =>
        \A m \in Maps, c \in Classes :
            LET lb == Leaderboard(map_times, m, c) IN
            \A r \in lb : \A first \in {x \in lb : x.rank = 1} :
                r.points = calc_points(first.duration, r.duration, Cardinality(lb))

(* C6 witness: a REPLACE has returned with a new fastest time and another  *)
(* Run of the leaderboard has other points than it had before.             *)
C6_Witness ==
    \E w \in Workers :
        /\ Mutated(w) /\ result[w].result = UPDATED /\ result[w].rank = 1
        /\ \E r \in Leaderboard(map_times, self[w].map_id, self[w].player_class) :
              \E b \in before.map_times :
                  b.id_ = r.id_ /\ b.points # r.points /\ b.points # NULL

(* C7: in every committed state every Split's Run exists; between the two  *)
(* commits of a REPLACE the old Run is there without Splits; after the     *)
(* REPLACE no Split names the deleted Run.                                 *)
C7_NoDanglingSplit ==
    /\ \A t \in map_checkpoint_times : \E r \in map_times : r.id_ = t.time_id
    /\ \A w \in Workers :
          /\ pc[w] = "delete" =>
                /\ \E r \in map_times : r.id_ = query[w].id_
                /\ \A t \in map_checkpoint_times : t.time_id # query[w].id_
          /\ (Submitted(w) /\ result[w].result = UPDATED) =>
                /\ \A r \in map_times : r.id_ # query[w].id_
                /\ \A t \in map_checkpoint_times : t.time_id # query[w].id_

(* C7 witness: between the two commits of a REPLACE, the old Run had       *)
(* Splits before and the new Run has Splits now.                           *)
C7_Witness ==
    \E w \in Workers :
        /\ pc[w] = "delete"
        /\ \E t \in before.map_checkpoint_times : t.time_id = query[w].id_
        /\ \E t \in map_checkpoint_times : t.time_id = self[w].id_

PlayerPoints(p, c) == IF c = SOLDIER THEN player[p].s_points ELSE player[p].d_points
PlayerRank(p, c) == IF c = SOLDIER THEN player[p].s_rank ELSE player[p].d_rank

(* C8: after every completed ADD or REPLACE a Player's points of a class   *)
(* are the sum of the points of the Player's Runs of that class on all     *)
(* maps, and 0 when the Player has no Run with points in that class.       *)
C8_PlayerPointsAreSum ==
    \A w \in Workers : Mutated(w) =>
        \A p \in Players, c \in Classes :
            PlayerPoints(p, c) =
                SumPoints({r \in map_times : /\ r.player_id = p
                                             /\ r.player_class = c
                                             /\ r.points > 0})

(* C9: after every completed ADD or REPLACE, in each class the Players     *)
(* with points hold the ranks 1..K once each, by descending points, and    *)
(* the Players without points have rank 0.                                 *)
C9_PlayerRanksDense ==
    \A w \in Workers : Mutated(w) =>
        \A c \in Classes :
            LET scored == {p \in Players : PlayerPoints(p, c) > 0} IN
            /\ \A p \in Players \ scored : PlayerRank(p, c) = 0
            /\ \A k \in 1..Cardinality(scored) :
                  Cardinality({p \in scored : PlayerRank(p, c) = k}) = 1
            /\ \A p1, p2 \in scored :
                  PlayerRank(p1, c) < PlayerRank(p2, c)
                      => PlayerPoints(p1, c) >= PlayerPoints(p2, c)

(* C10: a player without a Run on (map, class) who submits a time smaller  *)
(* than every Run of that leaderboard is Added with rank 1, and every Run  *)
(* that was on the leaderboard is still on it, one rank lower.             *)
C10_NewFastestIsAdded ==
    \A w \in Workers : Submitted(w) =>
        LET lb == Leaderboard(before.map_times, self[w].map_id, self[w].player_class)
        IN  ( /\ \A r \in lb : r.player_id # self[w].player_id
              /\ \A r \in lb : self[w].duration < r.duration )
            => /\ result[w].result = ADDED
               /\ result[w].rank = 1
               /\ \A r \in lb : \E x \in map_times :
                     /\ x.id_ = r.id_
                     /\ SameTriple(x, r)
                     /\ x.rank = r.rank + 1

(* The snapshots get_records could return in the store as it was when the  *)
(* submission of w began.                                                  *)
SnapshotsBefore(w) ==
    get_records(before.map_times, before.map_checkpoint_times, before.player,
                self[w].map_id)

(* C11: the records of an outcome are the world records read before the    *)
(* mutation.  Updated with rank 1: old_records is that snapshot and        *)
(* records is it with the entry of the submitted class replaced by the new *)
(* Run and the other entry unchanged.  Updated with a rank above 1, Added  *)
(* and Rejected: records is the snapshot and old_records is absent.        *)
C11_RecordsSnapshot ==
    \A w \in Workers : Submitted(w) =>
        IF result[w].result = UPDATED /\ result[w].rank = 1
        THEN LET me == json(map_checkpoint_times, player,
                            Row(map_times, self[w])) IN
             /\ result[w].old_records \in SnapshotsBefore(w)
             /\ self[w].player_class = SOLDIER =>
                   /\ result[w].records.soldier = me
                   /\ result[w].records.demoman = result[w].old_records.demoman
             /\ self[w].player_class = DEMOMAN =>
                   /\ result[w].records.demoman = me
                   /\ result[w].records.soldier = result[w].old_records.soldier
        ELSE /\ result[w].records \in SnapshotsBefore(w)
             /\ result[w].old_records = Absent

(* C11 witness: an Updated outcome of rank 1 on a map whose two records    *)
(* were held; the entry of the submitted class changed, the other did not. *)
C11_Witness ==
    \E w \in Workers :
        /\ Submitted(w) /\ result[w].result = UPDATED /\ result[w].rank = 1
        /\ result[w].old_records.soldier # NoneJson
        /\ result[w].old_records.demoman # NoneJson
        /\ result[w].records # result[w].old_records

(* An Updated outcome of a rank above 1: the snapshot comes back alone.    *)
C11_WitnessBelow ==
    \E w \in Workers :
        /\ Submitted(w) /\ result[w].result = UPDATED /\ result[w].rank > 1
        /\ result[w].old_records = Absent

(* C12: a submission whose end_time is before its start_time fails with    *)
(* InvalidInput before any read or write: it has none of the three         *)
(* outcomes, it never reaches a commit, and no Run, Split, rank or points  *)
(* value is created, deleted or changed.                                   *)
C12_EndBeforeStartFails ==
    \A w \in Workers :
        (self[w] # NoRun /\ self[w].end_time < self[w].start_time) =>
            /\ pc[w] = "return"
            /\ result[w].result \notin {NONE, ADDED, UPDATED}
            /\ map_times = before.map_times
            /\ map_checkpoint_times = before.map_checkpoint_times
            /\ player = before.player

(* The recompute of w is in flight: it has been called and has not yet     *)
(* committed the ranks.                                                    *)
Recomputing(w) == pc[w] \in {"update_ranks", "commit_ranks"}

(* Every worker's submission has returned an outcome.                      *)
AllCompleted ==
    \A w \in Workers :
        Submitted(w) /\ result[w].result \in {NONE, ADDED, UPDATED}

(* C13, first half: of the submissions to one (map, class) served at the   *)
(* same time, at most one has its recompute in flight.                     *)
C13_OneRecomputeInFlight ==
    \A w1, w2 \in Workers :
        ( /\ w1 # w2
          /\ Recomputing(w1) /\ Recomputing(w2)
          /\ self[w1].map_id = self[w2].map_id
          /\ self[w1].player_class = self[w2].player_class ) => FALSE

(* C13, second half: once the submissions to one (map, class) served at    *)
(* the same time have all completed, the ranks of that leaderboard are     *)
(* 1..N by ascending duration and every Run has the points of the final    *)
(* order.                                                                  *)
C13_RanksAfterAll ==
    ( /\ AllCompleted
      /\ \A w1, w2 \in Workers :
            /\ self[w1].map_id = self[w2].map_id
            /\ self[w1].player_class = self[w2].player_class )
    => \A w \in Workers :
          LET lb == Leaderboard(map_times, self[w].map_id, self[w].player_class)
          IN  /\ Ranked(lb)
              /\ \A r \in lb : \A first \in {x \in lb : x.rank = 1} :
                    r.points = calc_points(first.duration, r.duration,
                                           Cardinality(lb))

(* C13: submissions to the same (map, class) leaderboard served at the     *)
(* same time never have their recomputes interleaved, so that once all     *)
(* have completed the ranks are 1..N by ascending duration and no stale    *)
(* rank or points value is left.                                           *)
C13_SerializedRecompute == C13_OneRecomputeInFlight /\ C13_RanksAfterAll

(* C14: whatever the interleaving of the submissions served at the same    *)
(* time for one (map, player, class), once they have completed the triple  *)
(* has at most one Run and it has the fastest of the submitted times.      *)
C14_TripleUniqueConcurrent ==
    \A w1, w2 \in Workers :
        ( /\ w1 # w2
          /\ Submitted(w1) /\ Submitted(w2)
          /\ SameTriple(self[w1], self[w2]) ) =>
            LET runs == RunsOf(map_times, self[w1].map_id, self[w1].player_id,
                               self[w1].player_class)
            IN  /\ Cardinality(runs) <= 1
                /\ \A r \in runs :
                      /\ Time(r) <= Time(self[w1])
                      /\ Time(r) <= Time(self[w2])

(* The number of Runs of the leaderboard (m, c) in the table rows.         *)
Count(rows, m, c) == Cardinality(Leaderboard(rows, m, c))

(* C15: the completions of every Added or Updated outcome are, per class,  *)
(* the number of Runs stored for (map, class) after the mutation.  An ADD  *)
(* raises the count of the submitted class by one and leaves the other     *)
(* class's count; a REPLACE leaves both counts.                            *)
C15_CompletionsAreCounts ==
    \A w \in Workers : Mutated(w) =>
        LET m == self[w].map_id
            c == self[w].player_class
        IN  /\ result[w].completions.soldier = Count(map_times, m, SOLDIER)
            /\ result[w].completions.demoman = Count(map_times, m, DEMOMAN)
            /\ result[w].result = ADDED =>
                  /\ Count(map_times, m, c) = Count(before.map_times, m, c) + 1
                  /\ \A o \in Classes \ {c} :
                        Count(map_times, m, o) = Count(before.map_times, m, o)
            /\ result[w].result = UPDATED =>
                  \A o \in Classes :
                      Count(map_times, m, o) = Count(before.map_times, m, o)

(* The first half of C15 alone: the reported counts are the stored counts. *)
C15_ReportedAreStored ==
    \A w \in Workers : Mutated(w) =>
        /\ result[w].completions.soldier
              = Count(map_times, self[w].map_id, SOLDIER)
        /\ result[w].completions.demoman
              = Count(map_times, self[w].map_id, DEMOMAN)

(* The call of w is a direct recompute that has returned, and the call     *)
(* served before it ran the recompute of the same map: the second of two   *)
(* recomputes with no submission between them.                             *)
RecomputedAgain(w) == Recomputed(w) /\ ranked = map_id[w]

(* Two Runs of one leaderboard of the table rows have the same duration.   *)
HasTie(rows) ==
    \E r1, r2 \in rows :
        /\ r1.id_ # r2.id_
        /\ r1.map_id = r2.map_id /\ r1.player_class = r2.player_class
        /\ r1.duration = r2.duration

(* C16: a recompute that follows a recompute of the same leaderboards,     *)
(* with no submission between them, leaves every rank and points value as  *)
(* the first left it, also when several Runs have equal durations.         *)
C16_RecomputeIdempotent ==
    \A w \in Workers : RecomputedAgain(w) => map_times = before.map_times

(* C16 for leaderboards whose durations are all different.                 *)
C16_IdempotentWithoutTies ==
    \A w \in Workers :
        (RecomputedAgain(w) /\ ~HasTie(before.map_times))
            => map_times = before.map_times

(* C17: after a recompute, of two Runs of one leaderboard with the same    *)
(* duration the one with the smaller id has the lower rank, so the ranks   *)
(* do not depend on the order in which the storage returns the rows.       *)
C17_TiesBySmallerId ==
    \A w \in Workers : (Mutated(w) \/ Recomputed(w)) =>
        \A r1, r2 \in map_times :
            ( /\ r1.map_id = map_id[w] /\ r2.map_id = map_id[w]
              /\ r1.player_class = r2.player_class
              /\ r1.duration = r2.duration
              /\ r1.id_ < r2.id_ ) => r1.rank < r2.rank

(* The two leaderboards of map m are ranked in the table rows.             *)
MapRanked(rows, m) == \A c \in Classes : Ranked(Leaderboard(rows, m, c))

(* C18: every ADD and REPLACE runs, in this order and once each, the       *)
(* commit of the Run and Split mutation, the leaderboard recompute with    *)
(* its commit, and the player aggregate recompute; the aggregate recompute *)
(* starts on committed ranks; a Rejected outcome runs neither recompute.   *)
(* As steps: a submission enters the recompute only by the commit that     *)
(* ends its mutation, leaves it only into the aggregate recompute with the *)
(* map ranked, leaves that only by returning Added or Updated, and returns *)
(* Rejected only from the lookup, the tables untouched.                    *)
C18_CommitRanksPlayers ==
    [][ \A w \in Workers :
          /\ (pc[w] # "update_ranks" /\ pc'[w] = "update_ranks"
                  /\ self'[w] # NoRun)
                => /\ pc[w] \in {"add", "delete"}
                   /\ map_times' # map_times
                   /\ player' = player
          /\ pc[w] \in {"add", "delete"}
                => pc'[w] \in {pc[w], "update_ranks"}
          /\ pc[w] = "replace" => pc'[w] \in {"replace", "delete"}
          /\ pc[w] = "update_ranks"
                => pc'[w] \in {"update_ranks", "calculate_ranks"}
          /\ (pc[w] # "calculate_ranks" /\ pc'[w] = "calculate_ranks")
                => /\ pc[w] = "update_ranks"
                   /\ MapRanked(map_times', map_id[w])
                   /\ player' = player
          /\ pc[w] = "calculate_ranks"
                => /\ pc'[w] \in {"calculate_ranks", "return"}
                   /\ map_times' = map_times
          /\ (pc[w] # "return" /\ pc'[w] = "return" /\ self'[w] # NoRun)
                => \/ /\ pc[w] = "calculate_ranks"
                      /\ result'[w].result \in {ADDED, UPDATED}
                   \/ /\ pc[w] = "idle"
                      /\ result'[w].result = NONE
                      /\ UNCHANGED tables
      ]_vars

(* C18 witness: a REPLACE between the commit of the ranks and the          *)
(* aggregate recompute: the new Run is ranked and the players are as they  *)
(* were before the call.                                                   *)
C18_Witness ==
    \E w \in Workers :
        /\ pc[w] = "calculate_ranks"
        /\ self[w] # NoRun /\ query[w] # NoRun
        /\ \A r \in map_times : r.id_ # query[w].id_
        /\ Row(map_times, self[w]).rank = 1
        /\ player = before.player

(* The submitted pairs of w whose cp_index has a checkpoint of the map:    *)
(* the positions in the argument, each with that checkpoint.               *)
DefinedPairs(w) ==
    { x \in (DOMAIN checkpoints[w]) \X map_checkpoint :
        /\ x[2].map_id = self[w].map_id
        /\ x[2].cp_index = checkpoints[w][x[1]].cp_index }

(* C19: once the new Run of an ADD or REPLACE is committed, its Splits are *)
(* one per submitted (cp_index, time) pair whose index has a checkpoint of *)
(* the map, each with the submitted time; a pair with an undefined index   *)
(* gives no Split and no error; the deletion of the old Run's Splits in a  *)
(* REPLACE removes none of them.                                           *)
C19_SplitsOfNewRun ==
    \A w \in Workers : (self[w] # NoRun /\ self[w].id_ # NULL) =>
        LET mine == {t \in map_checkpoint_times : t.time_id = self[w].id_} IN
        /\ mine = { [checkpoint_id |-> x[2].id_,
                     time_id |-> self[w].id_,
                     time |-> checkpoints[w][x[1]].time] : x \in DefinedPairs(w) }
        /\ Cardinality(mine) = Cardinality(DefinedPairs(w))
        /\ pc[w] = "return" => result[w].result \in {ADDED, UPDATED}

(* C19 witness: a REPLACE submitted with one defined and one undefined     *)
(* index has returned; the Run it found had a Split, deleted by now, and   *)
(* the new Run has its one Split.                                          *)
C19_Witness ==
    \E w \in Workers :
        /\ Mutated(w) /\ result[w].result = UPDATED
        /\ Cardinality(DefinedPairs(w)) = 1
        /\ Len(checkpoints[w]) = 2
        /\ \E t \in before.map_checkpoint_times : t.time_id = query[w].id_
        /\ \A t \in map_checkpoint_times : t.time_id # query[w].id_
        /\ \E t \in map_checkpoint_times : t.time_id = self[w].id_

(* r and x are Runs of one (map, class) leaderboard.                       *)
SameLeaderboard(r, x) ==
    r.map_id = x.map_id /\ r.player_class = x.player_class

(* C20: a submission for (m, p, c) creates and deletes Runs of (m, p, c)   *)
(* only: every Run of another triple is still there with its id and its    *)
(* duration, no Run of another triple is new, and every Run of another     *)
(* leaderboard has the rank and points it had.                             *)
C20_OtherTriplesUntouched ==
    \A w \in Workers : Submitted(w) =>
        /\ \A b \in before.map_times : ~SameTriple(b, self[w]) =>
              \E r \in map_times :
                  /\ r.id_ = b.id_ /\ SameTriple(r, b)
                  /\ r.duration = b.duration
        /\ \A r \in map_times : ~SameTriple(r, self[w]) =>
              \E b \in before.map_times : b.id_ = r.id_
        /\ \A b \in before.map_times : ~SameLeaderboard(b, self[w]) =>
              \A r \in map_times :
                  r.id_ = b.id_ => (r.rank = b.rank /\ r.points = b.points)

(* C21: every committed state, also those between the commits of one      *)
(* submission, holds at most one Run for every (map, player, class): in no *)
(* committed state of a REPLACE are the old Run and the new Run of the     *)
(* triple both stored.                                                     *)
C21_AtMostOneRunAtEveryCommit ==
    \A t \in Triples : Cardinality(RunsOf(map_times, t[1], t[2], t[3])) <= 1

(* The Runs the submission of w deleted: stored before it, gone after it.  *)
Deleted(w) ==
    {b \in before.map_times : \A r \in map_times : r.id_ # b.id_}

(* The smallest duration of a non-empty set of Runs.                       *)
Fastest(lb) == Min({r.duration : r \in lb})

(* C22, first part: a Run is deleted only by a REPLACE whose new duration  *)
(* is strictly smaller than the duration of the deleted Run.               *)
C22_DeletedOnlyByFaster ==
    \A w \in Workers : Submitted(w) =>
        \A b \in Deleted(w) :
            /\ result[w].result = UPDATED
            /\ self[w].duration < b.duration

(* C22: a Run is deleted only by a REPLACE with a strictly smaller new     *)
(* duration, so from one completed submission to the next a leaderboard    *)
(* that held a Run still holds one and its fastest duration is not         *)
(* greater than it was.                                                    *)
C22_FastestNeverIncreases ==
    \A w \in Workers : Submitted(w) =>
        /\ \A b \in Deleted(w) :
              /\ result[w].result = UPDATED
              /\ self[w].duration < b.duration
        /\ \A m \in Maps, c \in Classes :
              LET was == Leaderboard(before.map_times, m, c)
                  now == Leaderboard(map_times, m, c)
              IN  was # {} => (now # {} /\ Fastest(now) <= Fastest(was))

=============================================================================
